---- MODULE Spec2Model ----
(***************************************************************************)
(* State/data controller of the workspace panel (components/sidebar.tsx):  *)
(* the three collection stores, their loading flags, the tab-driven        *)
(* fetches, the upload/delete mutations and their reloads.                 *)
(*                                                                         *)
(* Every asynchronous request of the component is an entry of `reqs`; the  *)
(* promise callbacks (.then / .catch / .finally) that run when a request   *)
(* settles form one action, since no other task can run between them.      *)
(***************************************************************************)
EXTENDS Integers, Sequences, FiniteSets, Bags, TLC

\* ------------------------------------------------------------------ bounds

\* Tab changes explored after the mount (SpecTabs).
MaxTabOps == 3

\* Document uploads and deletes explored after the mount (SpecPdf).
MaxPdfOps == 2

\* User operations of any kind explored after the mount (Spec).
MaxOps == 2

\* Requests outstanding at the moment the user starts another operation.
MaxOutstanding == 2

\* Tab changes and expansion toggles explored after the mount (SpecDb).
MaxDbOps == 4

\* Tab changes and API URL edits explored after the mount (SpecUrl).
MaxUrlOps == 3

\* Length of the stem of a file name, the part before its ending (SpecTitle).
MaxStem == 2

\* ------------------------------------------------------------- value sets

Tabs == {"pdf", "chat", "database"}

\* Document collections the server can hold; a collection is its collection_id.
DocIds == {"d1", "d2"}

\* Chat collections, as their collection_id.
ChatIds == {"c1", "c2"}

\* Table names of the backend's data source.
TableNames == {"orders", "users"}

\* The names toggleTableExpansion is called with: the tables of the data
\* source and a name no table list contains.
ExpandNames == TableNames \cup {"audit"}

\* Values of the API base URL: the one the hosting page supplies first, and
\* another the user types.
Urls == {"u1", "u2"}

\* Sizes of the file selections handed to handlePdfUpload (0: null or empty).
Selections == {0, 2}

\* message_count values a chat upload response reports.
MessageCounts == {1, 2}

\* An optional value: <<>> is absent (undefined), <<x>> is present.
None == <<>>
Some(x) == <<x>>

VARIABLES
  mounted,          \* the mount effect has run
  activeTab,        \* useState("pdf")
  pdfCollections,   \* useState([])
  chatCollections,  \* useState([])
  dbTables,         \* useState([])
  uploading,        \* useState(false)
  loadingPdf,       \* useState(false)
  loadingChat,      \* useState(false)
  loadingDb,        \* useState(false)
  expandedTables,   \* useState(new Set())
  toasts,           \* the notifications the last step emitted through toast()
  reqs,             \* the outstanding requests, in issue order
  serverDocs,       \* the backend's document list
  ops,              \* number of user operations performed
  lastEvent,        \* the step that was taken last (history)
  apiUrl,           \* the apiUrl prop of the current render
  pdfMutated        \* "no": no document upload or delete has succeeded yet;
                    \* "clean": one has, and no document request has failed
                    \* since the last one did; "dirty": one has failed (history)

vars == <<mounted, activeTab, pdfCollections, chatCollections, dbTables,
          uploading, loadingPdf, loadingChat, loadingDb, expandedTables,
          toasts, reqs, serverDocs, ops, lastEvent, pdfMutated, apiUrl>>

stores == <<pdfCollections, chatCollections, dbTables>>
flags == <<uploading, loadingPdf, loadingChat, loadingDb>>

\* ---------------------------------------------------------------- requests

\* A request that has not settled: its kind, where it stands, what it carries.
\*   phase "sent"     issued, not yet answered
\*   phase "replied"  the server has produced its response (data), in flight
\*   phase "details"  (table list only) the per-table detail fetches run
\* overtaken (history): a request of the same kind issued later has settled.
\* detailUrl (table list only): the base URL its detail fetches are sent to.
Req(kind, arg) ==
  [kind |-> kind, phase |-> "sent", arg |-> arg, data |-> None,
   details |-> <<>>, detailUrl |-> None, overtaken |-> FALSE]

NoReq == Req("none", None)

\* What a list request is issued with (history): None when the effect of the
\* active tab issues it, Reload(op, id) when the .then of a successful upload
\* (id "") or of a successful delete of collection id issues it.
Reload(op, id) == Some([op |-> op, id |-> id])

\* The positions of the outstanding requests of a kind.
Outstanding(kind) == {i \in DOMAIN reqs : reqs[i].kind = kind}

\* Request i settles: it leaves the list of outstanding requests.
Settle(rs, i) ==
  LET marked == [j \in DOMAIN rs |->
                   IF j < i /\ rs[j].kind = rs[i].kind
                     THEN [rs[j] EXCEPT !.overtaken = TRUE] ELSE rs[j]]
  IN SubSeq(marked, 1, i - 1) \o SubSeq(marked, i + 1, Len(marked))

\* The handler that ran; its input or payload (for a failed list request:
\* the store as it was before the handler ran); whether the request it
\* settled had been overtaken.
\* The cause is what the settled request was issued with: for a list request,
\* the handler that asked for it (see Reload).
Event(op, arg, r) ==
  [op |-> op, arg |-> arg, overtaken |-> r.overtaken, cause |-> r.arg]

Toast(title, description, variant) ==
  [title |-> title, description |-> description, variant |-> variant]

\* toast(t): the handler emits notification t.
toast(t) == toasts' = <<t>>

\* The step emits no notification.
noToast == toasts' = <<>>

\* ------------------------------------------------------------ server data

\* The element of a sequence's range.
Range(s) == {s[k] : k \in DOMAIN s}

\* The sequence s without the entries equal to x, order kept.
Without(s, x) == SelectSeq(s, LAMBDA y : y # x)

\* JSON bodies a chat-list request can resolve with.
\*   t = "array":  a bare sequence (items)
\*   t = "object": an object; collections is its `collections` field, itself
\*                 a value with t in {"array", "string", "undefined"}
\*   t = "null":   null
\*   t = "string": a string
JArray(s) == [t |-> "array", items |-> s, collections |-> None]
JObject(c) == [t |-> "object", items |-> <<>>, collections |-> Some(c)]
JNull == [t |-> "null", items |-> <<>>, collections |-> None]
JString == [t |-> "string", items |-> <<>>, collections |-> None]
JField(t, s) == [t |-> t, items |-> s]

ChatLists == {<<>>, <<"c2", "c1">>}

ChatBodies ==
  {JArray(s) : s \in ChatLists}
    \cup {JObject(JField("array", s)) : s \in ChatLists}
    \cup {JNull, JString,
          JObject(JField("undefined", <<>>)), JObject(JField("string", <<>>))}

\* Array.isArray(v)
IsArray(v) == v.t = "array"

\* JavaScript truthiness of a body: null is falsy; arrays, objects and the
\* (non-empty) string are truthy.
Truthy(v) == v.t # "null"

\* v.collections, undefined when the object has no such field.
FieldCollections(v) ==
  IF v.collections = None THEN JField("undefined", <<>>) ELSE v.collections[1]

\* A table record: the base record of the list response, with the columns and
\* sample data a detail response attaches (absent until then).
BaseTable(n) == [name |-> n, columns |-> None, sample_data |-> None]

\* Bodies a table-list request can resolve with: null, an object without
\* `tables`, an object whose `tables` is a sequence of base records.
TableLists == {<<>>, <<"users">>, <<"users", "orders">>}

DbBodies ==
  {[t |-> "null", tables |-> None], [t |-> "object", tables |-> None]}
    \cup {[t |-> "object", tables |-> Some(s)] : s \in TableLists}

\* Columns and sample rows a detail response can carry.
Columns == <<"id", "name">>
Rows == <<"row1">>

\* Outcomes of one detail fetch: it throws (the fetch rejects, the body does
\* not parse, or the body is null), or it resolves with an object that has or
\* lacks `columns` and `sample_data`.
DetailOutcomes ==
  {[ok |-> FALSE, columns |-> None, sample_data |-> None],
   [ok |-> TRUE, columns |-> Some(Columns), sample_data |-> Some(Rows)],
   [ok |-> TRUE, columns |-> None, sample_data |-> None]}

\* ------------------------------------------------------------ fetchCollections

\* fetchCollections(): setLoadingPdf(true) and the list request is issued.
\* `rs` is the request list as the calling handler leaves it, `cause` the
\* caller (history).
fetchCollections(rs, cause) ==
  /\ loadingPdf' = TRUE
  /\ reqs' = Append(rs, Req("pdfList", cause))

\* Variant: a response that a later request has overtaken is discarded.
fetchCollectionsThen_DropStale(i, data) ==
  IF reqs[i].overtaken THEN UNCHANGED pdfCollections ELSE pdfCollections' = data

\* .then((data) => setPdfCollections(data))
fetchCollectionsThen(i, data) == pdfCollections' = data

\* .catch: the error is logged and a toast is shown; the store is not written.
fetchCollectionsCatch ==
  /\ toast(Toast("Error", <<"Failed to fetch PDF collections">>, "destructive"))
  /\ UNCHANGED pdfCollections

\* .finally(() => setLoadingPdf(false))
fetchCollectionsFinally == loadingPdf' = FALSE

\* The backend answers a document-list request with its list as of now.
ServerListPdf(i) ==
  /\ reqs[i].kind = "pdfList" /\ reqs[i].phase = "sent"
  /\ reqs' = [reqs EXCEPT ![i].phase = "replied", ![i].data = Some(serverDocs)]
  /\ lastEvent' = Event("serverListPdf", None, NoReq)
  /\ noToast
  /\ UNCHANGED <<mounted, activeTab, stores, flags, expandedTables, serverDocs, ops>>
  /\ UNCHANGED pdfMutated
  /\ UNCHANGED apiUrl

\* The response of document-list request i arrives.
PdfListOk(i) ==
  /\ reqs[i].kind = "pdfList" /\ reqs[i].phase = "replied"
  /\ fetchCollectionsThen(i, reqs[i].data[1])
  /\ fetchCollectionsFinally
  /\ reqs' = Settle(reqs, i)
  /\ lastEvent' = Event("pdfListOk", reqs[i].data, reqs[i])
  /\ noToast
  /\ UNCHANGED <<mounted, activeTab, chatCollections, dbTables, uploading,
                 loadingChat, loadingDb, expandedTables, serverDocs, ops>>
  /\ UNCHANGED pdfMutated
  /\ UNCHANGED apiUrl

\* Document-list request i fails (no response, or one that is rejected).
PdfListFail(i) ==
  /\ reqs[i].kind = "pdfList" /\ reqs[i].phase \in {"sent", "replied"}
  /\ fetchCollectionsCatch
  /\ fetchCollectionsFinally
  /\ reqs' = Settle(reqs, i)
  /\ lastEvent' = Event("pdfListFail", Some(pdfCollections), reqs[i])
  /\ UNCHANGED <<mounted, activeTab, chatCollections, dbTables, uploading,
                 loadingChat, loadingDb, expandedTables, serverDocs, ops>>
  /\ pdfMutated' = IF pdfMutated = "no" THEN "no" ELSE "dirty"
  /\ UNCHANGED apiUrl

\* -------------------------------------------------------- fetchChatCollections

fetchChatCollections(rs, cause) ==
  /\ loadingChat' = TRUE
  /\ reqs' = Append(rs, Req("chatList", cause))

\* Variant: only the bare sequence is accepted.
NormalizeChat_BareOnly(data) == IF IsArray(data) THEN data.items ELSE <<>>

\* The sequence the .then callback stores for body `data`.
NormalizeChat(data) ==
  IF IsArray(data) THEN data.items
  ELSE IF Truthy(data) /\ IsArray(FieldCollections(data))
       THEN FieldCollections(data).items
  ELSE <<>>

fetchChatCollectionsThen(data) == chatCollections' = NormalizeChat(data)

\* Variant: the catch leaves the store as it is.
fetchChatCollectionsCatch_KeepStore ==
  /\ UNCHANGED chatCollections
  /\ toast(Toast("Error", <<"Failed to fetch chat collections">>, "destructive"))

fetchChatCollectionsCatch ==
  /\ chatCollections' = <<>>
  /\ toast(Toast("Error", <<"Failed to fetch chat collections">>, "destructive"))

fetchChatCollectionsFinally == loadingChat' = FALSE

\* Chat-list request i resolves with body `data`.
ChatListOk(i, data) ==
  /\ reqs[i].kind = "chatList" /\ reqs[i].phase = "sent"
  /\ fetchChatCollectionsThen(data)
  /\ fetchChatCollectionsFinally
  /\ reqs' = Settle(reqs, i)
  /\ lastEvent' = Event("chatListOk", Some(data), reqs[i])
  /\ noToast
  /\ UNCHANGED <<mounted, activeTab, pdfCollections, dbTables, uploading,
                 loadingPdf, loadingDb, expandedTables, serverDocs, ops>>
  /\ UNCHANGED pdfMutated
  /\ UNCHANGED apiUrl

ChatListFail(i) ==
  /\ reqs[i].kind = "chatList" /\ reqs[i].phase = "sent"
  /\ fetchChatCollectionsCatch
  /\ fetchChatCollectionsFinally
  /\ reqs' = Settle(reqs, i)
  /\ lastEvent' = Event("chatListFail", Some(chatCollections), reqs[i])
  /\ UNCHANGED <<mounted, activeTab, pdfCollections, dbTables, uploading,
                 loadingPdf, loadingDb, expandedTables, serverDocs, ops>>
  /\ UNCHANGED pdfMutated
  /\ UNCHANGED apiUrl

\* --------------------------------------------------------------- fetchDbTables

\* fetch(`${apiUrl}/api/v1/database/tables`): the request is issued with the
\* apiUrl of the render whose effect calls fetchDbTables.
fetchDbTables(rs) ==
  /\ loadingDb' = TRUE
  /\ reqs' = Append(rs, Req("dbList", Some(apiUrl)))

\* Variant: a failed detail fetch still attaches empty columns and sample data.
MergeDetail_AlwaysAttach(table, d) ==
  [table EXCEPT
     !.columns = IF d.columns = None THEN Some(<<>>) ELSE d.columns,
     !.sample_data = IF d.sample_data = None THEN Some(<<>>) ELSE d.sample_data]

\* The record one task of the Promise.all batch returns for base record
\* `table` and the outcome `d` of its detail fetch: the catch returns the base
\* record; otherwise columns and sample_data are attached, [] standing in for
\* a field the detail body lacks.
MergeDetail(table, d) ==
  IF ~d.ok THEN table
  ELSE [table EXCEPT
          !.columns = IF d.columns = None THEN Some(<<>>) ELSE d.columns,
          !.sample_data = IF d.sample_data = None THEN Some(<<>>) ELSE d.sample_data]

\* data.tables && data.tables.length > 0
HasTables(body) == body.tables # None /\ Len(body.tables[1]) > 0

\* Variant: the detail fetches read the base URL when they are issued.
FetchUrl_Current(r) == apiUrl

\* `${apiUrl}/api/v1/database/table/${table.name}`: apiUrl is the constant of
\* the render that created this fetchDbTables closure, the one the list
\* request r was issued with.
FetchUrl(r) == r.arg[1]

\* Variant: two detail fetches are issued for every table.
DetailFetches_Twice(tables) == [k \in 1..(2 * Len(tables)) |-> None]

\* data.tables.map(async (table) => ...): one task per entry of the list, each
\* issuing its detail fetch at once; None is a fetch that has not settled.
DetailFetches(tables) == [k \in DOMAIN tables |-> None]

\* Every task of the batch has returned.
AllSettled(details) == \A k \in DOMAIN details : details[k] # None

\* tablesWithDetails: the task results in the order of data.tables.
TablesWithDetails(tables, details) ==
  [k \in DOMAIN tables |-> MergeDetail(BaseTable(tables[k]), details[k][1])]

\* Variant: the catch shows a toast like the other two fetches.
fetchDbTablesCatch_Toast ==
  /\ toast(Toast("Error", <<"Failed to fetch database tables">>, "destructive"))
  /\ UNCHANGED dbTables

\* .catch: the error is logged; no toast, the store is not written.
fetchDbTablesCatch ==
  /\ noToast
  /\ UNCHANGED dbTables

\* Variant: without the .finally, nothing clears the flag.
fetchDbTablesFinally_Missing == UNCHANGED loadingDb

\* .finally(() => setLoadingDb(false))
fetchDbTablesFinally == loadingDb' = FALSE

\* The table-list request resolves with a body that parses (res.json()).
\* A null body makes `data.tables` throw: the catch logs it. An empty or
\* absent `tables` empties the store. Otherwise one detail fetch per table is
\* issued and the callback waits for all of them.
DbListOk(i, body) ==
  /\ reqs[i].kind = "dbList" /\ reqs[i].phase = "sent"
  /\ IF body.t = "null"
       THEN /\ fetchDbTablesCatch
            /\ fetchDbTablesFinally
            /\ reqs' = Settle(reqs, i)
            /\ lastEvent' = Event("dbListThrow", Some(dbTables), reqs[i])
     ELSE IF HasTables(body)
       THEN /\ reqs' = [reqs EXCEPT
                          ![i].phase = "details",
                          ![i].data = body.tables,
                          ![i].details = DetailFetches(body.tables[1]),
                          ![i].detailUrl = Some(FetchUrl(reqs[i]))]
            /\ lastEvent' = Event("dbListDetails", body.tables, reqs[i])
            /\ noToast
            /\ UNCHANGED <<dbTables, loadingDb>>
     ELSE /\ dbTables' = <<>>
          /\ fetchDbTablesFinally
          /\ reqs' = Settle(reqs, i)
          /\ lastEvent' = Event("dbListEmpty", None, reqs[i])
          /\ noToast
  /\ UNCHANGED <<mounted, activeTab, pdfCollections, chatCollections, uploading,
                 loadingPdf, loadingChat, expandedTables, serverDocs, ops,
                 pdfMutated>>
  /\ UNCHANGED apiUrl

\* The table-list request fails: fetch() rejects or the body does not parse.
\* .catch logs the error, .finally clears the flag.
DbListFail(i) ==
  /\ reqs[i].kind = "dbList" /\ reqs[i].phase = "sent"
  /\ fetchDbTablesCatch
  /\ fetchDbTablesFinally
  /\ reqs' = Settle(reqs, i)
  /\ lastEvent' = Event("dbListFail", Some(dbTables), reqs[i])
  /\ UNCHANGED <<mounted, activeTab, pdfCollections, chatCollections, uploading,
                 loadingPdf, loadingChat, expandedTables, serverDocs, ops,
                 pdfMutated>>
  /\ UNCHANGED apiUrl

\* The detail fetch of the k-th table of request i settles with outcome d.
\* When it is the last of the batch, Promise.all resolves: the store is
\* written once and the flag is cleared.
DbDetailSettle(i, k, d) ==
  /\ reqs[i].kind = "dbList" /\ reqs[i].phase = "details"
  /\ k \in DOMAIN reqs[i].details /\ reqs[i].details[k] = None
  /\ LET details == [reqs[i].details EXCEPT ![k] = Some(d)]
     IN IF AllSettled(details)
          THEN /\ dbTables' = TablesWithDetails(reqs[i].data[1], details)
               /\ fetchDbTablesFinally
               /\ reqs' = Settle(reqs, i)
               /\ lastEvent' = Event("dbListOk",
                                      [tables |-> reqs[i].data[1], details |-> details],
                                      reqs[i])
          ELSE /\ reqs' = [reqs EXCEPT ![i].details = details]
               /\ lastEvent' = Event("dbDetail", details, reqs[i])
               /\ UNCHANGED <<dbTables, loadingDb>>
  /\ noToast
  /\ UNCHANGED <<mounted, activeTab, pdfCollections, chatCollections, uploading,
                 loadingPdf, loadingChat, expandedTables, serverDocs, ops>>
  /\ UNCHANGED pdfMutated
  /\ UNCHANGED apiUrl

\* ------------------------------------------------------------- tab controller

\* Variant: every activation reloads all three kinds.
EffectBody_FetchAll(tab, rs) ==
  /\ loadingPdf' = TRUE /\ loadingChat' = TRUE /\ loadingDb' = TRUE
  /\ reqs' = rs \o <<Req("pdfList", None), Req("chatList", None),
                    Req("dbList", Some(apiUrl))>>

\* The body of the effect for active tab `tab`.
EffectBody(tab, rs) ==
  \/ tab = "pdf" /\ fetchCollections(rs, None) /\ UNCHANGED <<loadingChat, loadingDb>>
  \/ tab = "chat" /\ fetchChatCollections(rs, None) /\ UNCHANGED <<loadingPdf, loadingDb>>
  \/ tab = "database" /\ fetchDbTables(rs) /\ UNCHANGED <<loadingPdf, loadingChat>>

\* Variant: an effect without dependency list, run after every call.
useEffectActiveTab_Always(prev, tab, rs) == EffectBody(tab, rs)

\* useEffect(..., [activeTab]): after a render the effect runs when the value
\* of activeTab differs from the one of the previous render.
useEffectActiveTab(prev, tab, rs) ==
  IF tab # prev
    THEN EffectBody(tab, rs)
    ELSE /\ reqs' = rs
         /\ UNCHANGED <<loadingPdf, loadingChat, loadingDb>>

\* Variant: the first render loads all three kinds.
Mount_Prefetch ==
  /\ ~mounted
  /\ mounted' = TRUE
  /\ EffectBody_FetchAll(activeTab, reqs)
  /\ lastEvent' = Event("mount", None, NoReq)
  /\ noToast
  /\ UNCHANGED <<activeTab, stores, uploading, expandedTables, serverDocs, ops>>
  /\ UNCHANGED pdfMutated
  /\ UNCHANGED apiUrl

\* The first render: the effect runs once for the initial tab.
Mount ==
  /\ ~mounted
  /\ mounted' = TRUE
  /\ EffectBody(activeTab, reqs)
  /\ lastEvent' = Event("mount", None, NoReq)
  /\ noToast
  /\ UNCHANGED <<activeTab, stores, uploading, expandedTables, serverDocs, ops>>
  /\ UNCHANGED pdfMutated
  /\ UNCHANGED apiUrl

\* Handlers run once the component is mounted.
CanAct == mounted

\* Variant: a tab change collapses every expanded table.
handleTabChange_Collapse(tab) ==
  /\ CanAct
  /\ activeTab' = tab
  /\ useEffectActiveTab(activeTab, tab, reqs)
  /\ expandedTables' = {}
  /\ ops' = ops + 1
  /\ lastEvent' = Event("handleTabChange", Some(activeTab), NoReq)
  /\ noToast
  /\ UNCHANGED <<mounted, stores, uploading, serverDocs>>
  /\ UNCHANGED pdfMutated
  /\ UNCHANGED apiUrl

\* handleTabChange(tab): setActiveTab(tab), then the effect of the re-render.
\* The event keeps the tab that was active before the call.
handleTabChange(tab) ==
  /\ CanAct
  /\ activeTab' = tab
  /\ useEffectActiveTab(activeTab, tab, reqs)
  /\ ops' = ops + 1
  /\ lastEvent' = Event("handleTabChange", Some(activeTab), NoReq)
  /\ noToast
  /\ UNCHANGED <<mounted, stores, uploading, expandedTables, serverDocs>>
  /\ UNCHANGED pdfMutated
  /\ UNCHANGED apiUrl

\* --------------------------------------------------------- mutation coordinator

\* The collection ids in the order the backend assigns them.
DocOrder == <<"d1", "d2">>

\* The next collection id the backend does not hold yet.
FreshDoc ==
  LET free == {k \in DOMAIN DocOrder : DocOrder[k] \notin Range(serverDocs)}
  IN DocOrder[CHOOSE k \in free : \A m \in free : k <= m]

\* Variant: no guard, the upload request is issued for every selection.
handlePdfUpload_NoGuard(n) ==
  /\ CanAct
  /\ uploading' = TRUE
  /\ reqs' = Append(reqs, Req("pdfUpload", Some(n)))
  /\ ops' = ops + 1
  /\ lastEvent' = Event("handlePdfUpload", Some(n), NoReq)
  /\ noToast
  /\ UNCHANGED <<mounted, activeTab, stores, loadingPdf, loadingChat, loadingDb,
                 expandedTables, serverDocs>>
  /\ UNCHANGED pdfMutated
  /\ UNCHANGED apiUrl

\* handlePdfUpload(files) for a selection of n files (0: null or empty).
handlePdfUpload(n) ==
  /\ CanAct
  /\ IF n = 0
       THEN UNCHANGED <<uploading, reqs>>
       ELSE /\ uploading' = TRUE
            /\ reqs' = Append(reqs, Req("pdfUpload", Some(n)))
  /\ ops' = ops + 1
  /\ lastEvent' = Event("handlePdfUpload", Some(n), NoReq)
  /\ noToast
  /\ UNCHANGED <<mounted, activeTab, stores, loadingPdf, loadingChat, loadingDb,
                 expandedTables, serverDocs>>
  /\ UNCHANGED pdfMutated
  /\ UNCHANGED apiUrl

\* The backend stores the upload as a new collection and reports how many of
\* the files it accepted.
ServerUploadPdf(i, count) ==
  /\ reqs[i].kind = "pdfUpload" /\ reqs[i].phase = "sent"
  /\ count \in 1..reqs[i].arg[1]
  /\ DocIds \ Range(serverDocs) # {}
  /\ serverDocs' = Append(serverDocs, FreshDoc)
  /\ reqs' = [reqs EXCEPT ![i].phase = "replied", ![i].data = Some(count)]
  /\ lastEvent' = Event("serverUploadPdf", None, NoReq)
  /\ noToast
  /\ UNCHANGED <<mounted, activeTab, stores, flags, expandedTables, ops>>
  /\ UNCHANGED pdfMutated
  /\ UNCHANGED apiUrl

\* Variant: the success toast reports the size of the selection.
PdfUploadOk_ToastSelection(i) ==
  /\ reqs[i].kind = "pdfUpload" /\ reqs[i].phase = "replied"
  /\ toast(Toast("Upload Successful",
                 <<reqs[i].arg[1], " PDF(s) uploaded successfully">>, "default"))
  /\ fetchCollections(Settle(reqs, i), Reload("upload", ""))
  /\ uploading' = FALSE
  /\ lastEvent' = Event("pdfUploadOk", reqs[i].data, reqs[i])
  /\ UNCHANGED <<mounted, activeTab, stores, loadingChat, loadingDb,
                 expandedTables, serverDocs, ops>>
  /\ pdfMutated' = "clean"
  /\ UNCHANGED apiUrl

\* PdfUploadApi.store(...).then: success toast with data.file_count, reload;
\* .finally: setUploading(false).
PdfUploadOk(i) ==
  /\ reqs[i].kind = "pdfUpload" /\ reqs[i].phase = "replied"
  /\ toast(Toast("Upload Successful",
                 <<reqs[i].data[1], " PDF(s) uploaded successfully">>, "default"))
  /\ fetchCollections(Settle(reqs, i), Reload("upload", ""))
  /\ uploading' = FALSE
  /\ lastEvent' = Event("pdfUploadOk", reqs[i].data, reqs[i])
  /\ UNCHANGED <<mounted, activeTab, stores, loadingChat, loadingDb,
                 expandedTables, serverDocs, ops>>
  /\ pdfMutated' = "clean"
  /\ UNCHANGED apiUrl

\* .catch: failure toast; .finally: setUploading(false).
PdfUploadFail(i) ==
  /\ reqs[i].kind = "pdfUpload" /\ reqs[i].phase \in {"sent", "replied"}
  /\ toast(Toast("Upload Failed", <<"Failed to upload PDF files">>, "destructive"))
  /\ uploading' = FALSE
  /\ reqs' = Settle(reqs, i)
  /\ lastEvent' = Event("pdfUploadFail", None, reqs[i])
  /\ UNCHANGED <<mounted, activeTab, stores, loadingPdf, loadingChat, loadingDb,
                 expandedTables, serverDocs, ops>>
  /\ pdfMutated' = IF pdfMutated = "no" THEN "no" ELSE "dirty"
  /\ UNCHANGED apiUrl

\* handleChatUpload(file, platform): one file with its platform tag.
handleChatUpload ==
  /\ CanAct
  /\ uploading' = TRUE
  /\ reqs' = Append(reqs, Req("chatUpload", None))
  /\ ops' = ops + 1
  /\ lastEvent' = Event("handleChatUpload", None, NoReq)
  /\ noToast
  /\ UNCHANGED <<mounted, activeTab, stores, loadingPdf, loadingChat, loadingDb,
                 expandedTables, serverDocs>>
  /\ UNCHANGED pdfMutated
  /\ UNCHANGED apiUrl

\* Variant: the .then reloads the documents instead of the chats.
ChatUploadOk_ReloadsDocs(i, count) ==
  /\ reqs[i].kind = "chatUpload" /\ reqs[i].phase = "sent"
  /\ toast(Toast("Chat Upload Successful", <<count, " messages processed">>, "default"))
  /\ fetchCollections(Settle(reqs, i), Reload("upload", ""))
  /\ uploading' = FALSE
  /\ lastEvent' = Event("chatUploadOk", Some(count), reqs[i])
  /\ UNCHANGED <<mounted, activeTab, stores, loadingChat, loadingDb,
                 expandedTables, serverDocs, ops>>
  /\ UNCHANGED pdfMutated
  /\ UNCHANGED apiUrl

\* ChatUploadApi.store(...).then: toast with data.message_count, reload.
ChatUploadOk(i, count) ==
  /\ reqs[i].kind = "chatUpload" /\ reqs[i].phase = "sent"
  /\ toast(Toast("Chat Upload Successful", <<count, " messages processed">>, "default"))
  /\ fetchChatCollections(Settle(reqs, i), Reload("upload", ""))
  /\ uploading' = FALSE
  /\ lastEvent' = Event("chatUploadOk", Some(count), reqs[i])
  /\ UNCHANGED <<mounted, activeTab, stores, loadingPdf, loadingDb,
                 expandedTables, serverDocs, ops>>
  /\ UNCHANGED pdfMutated
  /\ UNCHANGED apiUrl

ChatUploadFail(i) ==
  /\ reqs[i].kind = "chatUpload" /\ reqs[i].phase = "sent"
  /\ toast(Toast("Upload Failed", <<"Failed to upload chat file">>, "destructive"))
  /\ uploading' = FALSE
  /\ reqs' = Settle(reqs, i)
  /\ lastEvent' = Event("chatUploadFail", None, reqs[i])
  /\ UNCHANGED <<mounted, activeTab, stores, loadingPdf, loadingChat, loadingDb,
                 expandedTables, serverDocs, ops>>
  /\ UNCHANGED pdfMutated
  /\ UNCHANGED apiUrl

\* deleteCollection(collectionId): the delete request is issued.
deleteCollection(cid) ==
  /\ CanAct
  /\ reqs' = Append(reqs, Req("pdfDelete", Some(cid)))
  /\ ops' = ops + 1
  /\ lastEvent' = Event("deleteCollection", Some(cid), NoReq)
  /\ noToast
  /\ UNCHANGED <<mounted, activeTab, stores, flags, expandedTables, serverDocs>>
  /\ UNCHANGED pdfMutated
  /\ UNCHANGED apiUrl

\* The backend removes the collection it holds and acknowledges.
ServerDeletePdf(i) ==
  /\ reqs[i].kind = "pdfDelete" /\ reqs[i].phase = "sent"
  /\ reqs[i].arg[1] \in Range(serverDocs)
  /\ serverDocs' = Without(serverDocs, reqs[i].arg[1])
  /\ reqs' = [reqs EXCEPT ![i].phase = "replied"]
  /\ lastEvent' = Event("serverDeletePdf", None, NoReq)
  /\ noToast
  /\ UNCHANGED <<mounted, activeTab, stores, flags, expandedTables, ops>>
  /\ UNCHANGED pdfMutated
  /\ UNCHANGED apiUrl

\* Variant: the .then also removes the collection from the store itself.
PdfDeleteOk_Optimistic(i) ==
  /\ reqs[i].kind = "pdfDelete" /\ reqs[i].phase = "replied"
  /\ toast(Toast("Collection Deleted", <<"Collection deleted successfully">>, "default"))
  /\ fetchCollections(Settle(reqs, i), Reload("delete", reqs[i].arg[1]))
  /\ pdfCollections' = Without(pdfCollections, reqs[i].arg[1])
  /\ lastEvent' = Event("pdfDeleteOk", reqs[i].arg, reqs[i])
  /\ UNCHANGED <<mounted, activeTab, chatCollections, dbTables, uploading,
                 loadingChat, loadingDb, expandedTables, serverDocs, ops>>
  /\ pdfMutated' = "clean"
  /\ UNCHANGED apiUrl

\* .then: success toast, reload.
PdfDeleteOk(i) ==
  /\ reqs[i].kind = "pdfDelete" /\ reqs[i].phase = "replied"
  /\ toast(Toast("Collection Deleted", <<"Collection deleted successfully">>, "default"))
  /\ fetchCollections(Settle(reqs, i), Reload("delete", reqs[i].arg[1]))
  /\ lastEvent' = Event("pdfDeleteOk", reqs[i].arg, reqs[i])
  /\ UNCHANGED <<mounted, activeTab, stores, uploading, loadingChat, loadingDb,
                 expandedTables, serverDocs, ops>>
  /\ pdfMutated' = "clean"
  /\ UNCHANGED apiUrl

\* .catch: failure toast, nothing else.
PdfDeleteFail(i) ==
  /\ reqs[i].kind = "pdfDelete" /\ reqs[i].phase \in {"sent", "replied"}
  /\ toast(Toast("Delete Failed", <<"Failed to delete collection">>, "destructive"))
  /\ reqs' = Settle(reqs, i)
  /\ lastEvent' = Event("pdfDeleteFail", reqs[i].arg, reqs[i])
  /\ UNCHANGED <<mounted, activeTab, stores, flags, expandedTables, serverDocs, ops>>
  /\ pdfMutated' = IF pdfMutated = "no" THEN "no" ELSE "dirty"
  /\ UNCHANGED apiUrl

deleteChatCollection(cid) ==
  /\ CanAct
  /\ reqs' = Append(reqs, Req("chatDelete", Some(cid)))
  /\ ops' = ops + 1
  /\ lastEvent' = Event("deleteChatCollection", Some(cid), NoReq)
  /\ noToast
  /\ UNCHANGED <<mounted, activeTab, stores, flags, expandedTables, serverDocs>>
  /\ UNCHANGED pdfMutated
  /\ UNCHANGED apiUrl

ChatDeleteOk(i) ==
  /\ reqs[i].kind = "chatDelete" /\ reqs[i].phase = "sent"
  /\ toast(Toast("Chat Collection Deleted",
                 <<"Chat collection deleted successfully">>, "default"))
  /\ fetchChatCollections(Settle(reqs, i), Reload("delete", reqs[i].arg[1]))
  /\ lastEvent' = Event("chatDeleteOk", reqs[i].arg, reqs[i])
  /\ UNCHANGED <<mounted, activeTab, stores, uploading, loadingPdf, loadingDb,
                 expandedTables, serverDocs, ops>>
  /\ UNCHANGED pdfMutated
  /\ UNCHANGED apiUrl

\* Variant: the .catch reloads the list as the .then does.
ChatDeleteFail_Reload(i) ==
  /\ reqs[i].kind = "chatDelete" /\ reqs[i].phase = "sent"
  /\ toast(Toast("Delete Failed", <<"Failed to delete chat collection">>, "destructive"))
  /\ fetchChatCollections(Settle(reqs, i), Reload("delete", reqs[i].arg[1]))
  /\ lastEvent' = Event("chatDeleteFail", reqs[i].arg, reqs[i])
  /\ UNCHANGED <<mounted, activeTab, stores, uploading, loadingPdf, loadingDb,
                 expandedTables, serverDocs, ops>>
  /\ UNCHANGED pdfMutated
  /\ UNCHANGED apiUrl

ChatDeleteFail(i) ==
  /\ reqs[i].kind = "chatDelete" /\ reqs[i].phase = "sent"
  /\ toast(Toast("Delete Failed", <<"Failed to delete chat collection">>, "destructive"))
  /\ reqs' = Settle(reqs, i)
  /\ lastEvent' = Event("chatDeleteFail", reqs[i].arg, reqs[i])
  /\ UNCHANGED <<mounted, activeTab, stores, flags, expandedTables, serverDocs, ops>>
  /\ UNCHANGED pdfMutated
  /\ UNCHANGED apiUrl

\* ------------------------------------------------------------ expansion state

\* Variant: the updater only ever adds the name.
ToggleTable_AddOnly(prev, tableName) == prev \cup {tableName}

\* The updater passed to setExpandedTables: a copy of prev in which tableName
\* is deleted when present and added when absent.
ToggleTable(prev, tableName) ==
  IF tableName \in prev THEN prev \ {tableName} ELSE prev \cup {tableName}

\* Variant: expanding a table also reloads the tables.
toggleTableExpansion_Reload(tableName) ==
  /\ CanAct
  /\ expandedTables' = ToggleTable(expandedTables, tableName)
  /\ fetchDbTables(reqs)
  /\ ops' = ops + 1
  /\ lastEvent' = Event("toggleTableExpansion", Some(tableName), NoReq)
  /\ noToast
  /\ UNCHANGED <<mounted, activeTab, stores, uploading, loadingPdf, loadingChat,
                 serverDocs>>
  /\ UNCHANGED pdfMutated
  /\ UNCHANGED apiUrl

\* toggleTableExpansion(tableName): the functional update of expandedTables.
toggleTableExpansion(tableName) ==
  /\ CanAct
  /\ expandedTables' = ToggleTable(expandedTables, tableName)
  /\ ops' = ops + 1
  /\ lastEvent' = Event("toggleTableExpansion", Some(tableName), NoReq)
  /\ noToast
  /\ UNCHANGED <<mounted, activeTab, stores, flags, reqs, serverDocs>>
  /\ UNCHANGED pdfMutated
  /\ UNCHANGED apiUrl

\* ------------------------------------------------------------------ API URL

\* The API URL input calls onApiUrlChange(e.target.value); the hosting page
\* keeps the value and renders the panel again with it as apiUrl.
onApiUrlChange(url) ==
  /\ CanAct
  /\ apiUrl' = url
  /\ ops' = ops + 1
  /\ lastEvent' = Event("onApiUrlChange", Some(url), NoReq)
  /\ noToast
  /\ UNCHANGED <<mounted, activeTab, stores, flags, expandedTables, reqs, serverDocs>>
  /\ UNCHANGED pdfMutated

\* ---------------------------------------------------------- getCollectionTitle

\* A string is the sequence of its characters, a character a string of
\* length one.
Placeholder == <<"U", "n", "t", "i", "t", "l", "e", "d", " ", "C", "o", "l", "l", "e", "c", "t", "i", "o", "n">>

\* The characters of file-name stems, and the stems.
StemChars == {"a", "_", "-", "."}
Stems == UNION {[1..n -> StemChars] : n \in 0..MaxStem}

\* The endings of file names: none, the suffix in three spellings, the suffix
\* twice, the suffix followed by a character, and two near misses.
Endings ==
  {<<>>, <<".", "p", "d", "f">>, <<".", "P", "D", "F">>, <<".", "p", "D", "f">>, <<".", "p", "d", "f", ".", "p", "d", "f">>, <<".", "p", "d", "f", "a">>, <<"p", "d", "f">>, <<".", "p", "d">>}

FileNames == {stem \o ending : stem \in Stems, ending \in Endings}

\* Second entries of file_names.
LaterNames == {<<"b", "_", ".", "p", "d", "f">>, <<>>}

\* The collections getCollectionTitle is applied to: file_names absent
\* (None), empty, or of one or two entries; document_count stands for the
\* other fields.
Collections ==
  {[file_names |-> f, document_count |-> n] :
     f \in {None, Some(<<>>)}
          \cup {Some(<<first>>) : first \in FileNames}
          \cup {Some(<<first, later>>) : first \in FileNames, later \in LaterNames},
     n \in {0, 3}}

\* The case folding of the i flag, on the characters used here.
Lower(c) ==
  CASE c = "P" -> "p" [] c = "D" -> "d" [] c = "F" -> "f" [] OTHER -> c

\* firstName.replace(/\.pdf$/i, ""): the match is the last four characters.
StripPdf(str) ==
  LET n == Len(str)
  IN IF /\ n >= 4
        /\ str[n - 3] = "."
        /\ Lower(str[n - 2]) = "p"
        /\ Lower(str[n - 1]) = "d"
        /\ Lower(str[n]) = "f"
       THEN SubSeq(str, 1, n - 4)
       ELSE str

\* Variant: replace without the g flag, only the first occurrence.
ReplaceAll_FirstOnly(str, from, to) ==
  [k \in DOMAIN str |->
     IF str[k] = from /\ (\A j \in 1..(k - 1) : str[j] # from) THEN to ELSE str[k]]

\* str.replace(/from/g, to) for a one-character pattern.
ReplaceAll(str, from, to) ==
  [k \in DOMAIN str |-> IF str[k] = from THEN to ELSE str[k]]

getCollectionTitle(collection) ==
  IF collection.file_names # None /\ Len(collection.file_names[1]) > 0
    THEN LET firstName == collection.file_names[1][1]
         IN ReplaceAll(ReplaceAll(StripPdf(firstName), "_", " "), "-", " ")
    ELSE Placeholder

\* A render computes the title of `collection`, the collection it was handed.
RenderTitle(collection) ==
  /\ lastEvent = Event("render", Some(collection), NoReq)
  /\ lastEvent' = Event("getCollectionTitle",
                        Some([collection |-> collection,
                              title |-> getCollectionTitle(collection)]), NoReq)
  /\ noToast
  /\ UNCHANGED <<mounted, activeTab, stores, flags, expandedTables, reqs,
                 serverDocs, ops>>
  /\ UNCHANGED pdfMutated
  /\ UNCHANGED apiUrl

\* ---------------------------------------------------------------- Init

Init ==
  /\ mounted = FALSE
  /\ activeTab = "pdf"
  /\ pdfCollections = <<>>
  /\ chatCollections = <<>>
  /\ dbTables = <<>>
  /\ uploading = FALSE
  /\ loadingPdf = FALSE
  /\ loadingChat = FALSE
  /\ loadingDb = FALSE
  /\ expandedTables = {}
  /\ toasts = <<>>
  /\ reqs = <<>>
  /\ serverDocs = <<"d1">>
  /\ ops = 0
  /\ lastEvent = Event("init", None, NoReq)
  /\ pdfMutated = "no"
  /\ apiUrl = "u1"

\* The user starts another operation: the bounds of the exploration.
Budget(max) == ops < max /\ Len(reqs) < MaxOutstanding

\* The steps of an outstanding document-list request.
PdfListStep(i) ==
  \/ ServerListPdf(i)
  \/ PdfListOk(i)
  \/ PdfListFail(i)

ChatListStep(i) ==
  \/ \E data \in ChatBodies : ChatListOk(i, data)
  \/ ChatListFail(i)

DbListStep(i) ==
  \/ \E body \in DbBodies : DbListOk(i, body)
  \/ DbListFail(i)
  \/ \E k \in 1..Cardinality(TableNames), d \in DetailOutcomes :
       DbDetailSettle(i, k, d)

PdfMutationStep(i) ==
  \/ \E count \in 1..2 : ServerUploadPdf(i, count)
  \/ PdfUploadOk(i)
  \/ PdfUploadFail(i)
  \/ ServerDeletePdf(i)
  \/ PdfDeleteOk(i)
  \/ PdfDeleteFail(i)

ChatMutationStep(i) ==
  \/ \E count \in MessageCounts : ChatUploadOk(i, count)
  \/ ChatUploadFail(i)
  \/ ChatDeleteOk(i)
  \/ ChatDeleteFail(i)

PdfMutation ==
  \/ \E n \in Selections : handlePdfUpload(n)
  \/ \E cid \in DocIds : deleteCollection(cid)

ChatMutation ==
  \/ handleChatUpload
  \/ \E cid \in ChatIds : deleteChatCollection(cid)

\* The panel with a fixed API URL.
Next ==
  \/ Mount
  \/ Budget(MaxOps) /\ \E tab \in Tabs : handleTabChange(tab)
  \/ Budget(MaxOps) /\ PdfMutation
  \/ Budget(MaxOps) /\ ChatMutation
  \/ Budget(MaxOps) /\ \E tableName \in ExpandNames : toggleTableExpansion(tableName)
  \/ \E i \in DOMAIN reqs :
       \/ PdfListStep(i)
       \/ ChatListStep(i)
       \/ DbListStep(i)
       \/ PdfMutationStep(i)
       \/ ChatMutationStep(i)

Spec == Init /\ [][Next]_vars

\* The tab controller and the three fetches it triggers.
NextTabs ==
  \/ Mount
  \/ Budget(MaxTabOps) /\ \E tab \in Tabs : handleTabChange(tab)
  \/ \E i \in DOMAIN reqs :
       \/ PdfListStep(i)
       \/ ChatListStep(i)
       \/ DbListStep(i)

SpecTabs == Init /\ [][NextTabs]_vars

\* The documents tab: the mount's load, uploads, deletes and their reloads.
NextPdf ==
  \/ Mount
  \/ Budget(MaxPdfOps) /\ PdfMutation
  \/ \E i \in DOMAIN reqs :
       \/ PdfListStep(i)
       \/ PdfMutationStep(i)

SpecPdf == Init /\ [][NextPdf]_vars

\* The tabs the tables panel is explored with: the initial one and its own.
DbTabs == {"pdf", "database"}

\* The tables tab: its activations, the table loads and the expansion toggles.
NextDb ==
  \/ Mount
  \/ Budget(MaxDbOps) /\ \E tab \in DbTabs : handleTabChange(tab)
  \/ Budget(MaxDbOps) /\ \E tableName \in ExpandNames : toggleTableExpansion(tableName)
  \/ \E i \in DOMAIN reqs :
       \/ PdfListStep(i)
       \/ DbListStep(i)

SpecDb == Init /\ [][NextDb]_vars

\* The tables tab and the API URL: activations, table loads, edits of the URL.
NextUrl ==
  \/ Mount
  \/ Budget(MaxUrlOps) /\ \E tab \in DbTabs : handleTabChange(tab)
  \/ Budget(MaxUrlOps) /\ \E url \in Urls : onApiUrlChange(url)
  \/ \E i \in DOMAIN reqs :
       \/ PdfListStep(i)
       \/ DbListStep(i)

SpecUrl == Init /\ [][NextUrl]_vars

\* getCollectionTitle applied to the collections of Collections: a render is
\* handed one of them and computes its title.
InitTitle ==
  /\ mounted = FALSE
  /\ activeTab = "pdf"
  /\ pdfCollections = <<>>
  /\ chatCollections = <<>>
  /\ dbTables = <<>>
  /\ uploading = FALSE
  /\ loadingPdf = FALSE
  /\ loadingChat = FALSE
  /\ loadingDb = FALSE
  /\ expandedTables = {}
  /\ toasts = <<>>
  /\ reqs = <<>>
  /\ serverDocs = <<"d1">>
  /\ ops = 0
  /\ \E collection \in Collections :
       lastEvent = Event("render", Some(collection), NoReq)
  /\ pdfMutated = "no"
  /\ apiUrl = "u1"

NextTitle == lastEvent.op = "render" /\ RenderTitle(lastEvent.arg[1])

SpecTitle == InitTitle /\ [][NextTitle]_vars
\* ------------------------------------------------------------------ claims

PdfKinds == {"pdfList", "pdfUpload", "pdfDelete"}

\* No document request (list, upload, delete) is outstanding.
PdfQuiet == \A i \in DOMAIN reqs : reqs[i].kind \notin PdfKinds

PdfErrorToast == Toast("Error", <<"Failed to fetch PDF collections">>, "destructive")
ChatErrorToast == Toast("Error", <<"Failed to fetch chat collections">>, "destructive")

\* C1: once a loadDocuments() whose list request failed has settled, the
\* documents store is the empty sequence and its loading flag is false.
C1_FailedLoadEmptiesPdf ==
  lastEvent.op = "pdfListFail" => pdfCollections = <<>> /\ ~loadingPdf

\* C2: the loading flag of a kind is true whenever a list request of that
\* kind is outstanding, also when load calls of the same kind overlap.
C2_LoadingWhileOutstanding ==
  /\ Outstanding("pdfList") # {} => loadingPdf
  /\ Outstanding("chatList") # {} => loadingChat
  /\ Outstanding("dbList") # {} => loadingDb

\* A step that is a setActiveTab(kind) call with kind the active tab.
SameTabCall ==
  /\ ops' = ops + 1
  /\ lastEvent'.op = "handleTabChange"
  /\ activeTab' = activeTab

\* The kind of list request the effect issues for a tab.
ListKind(tab) ==
  CASE tab = "pdf" -> "pdfList" [] tab = "chat" -> "chatList" [] tab = "database" -> "dbList"

\* C3 as stated: a setActiveTab(kind) call with kind already active issues a
\* new list request for that kind.
C3_SameTabRefetches ==
  [][SameTabCall => reqs' = Append(reqs, Req(ListKind(activeTab), None))]_vars

\* C3 as amended: a setActiveTab(kind) call with kind already active issues no
\* request and leaves the stores, the flags and the active tab unchanged.
C3_SameTabNoFetch ==
  [][SameTabCall => reqs' = reqs /\ UNCHANGED <<stores, flags, activeTab>>]_vars

\* C3 witness: the state after a call for the tab that was already active.
C3_Witness ==
  /\ lastEvent.op = "handleTabChange"
  /\ lastEvent.arg = Some(activeTab)
  /\ activeTab = "chat"

\* C4: once an upload or delete of documents has succeeded and every document
\* request outstanding has settled successfully, the documents store equals
\* the server's document list.
C4_StoreIsServerList ==
  (pdfMutated = "clean" /\ PdfQuiet) => pdfCollections = serverDocs

\* C5: overlapping loadDocuments() calls are neither cancelled nor merged,
\* each successful response is applied on arrival, and the store changes in
\* no other way: after all have settled it holds the payload that arrived last.
C5_LastArrivalWins ==
  /\ [](lastEvent.op = "pdfListOk" => pdfCollections = lastEvent.arg[1])
  /\ [][/\ pdfCollections' # pdfCollections => lastEvent'.op = "pdfListOk"
        /\ Cardinality(Outstanding("pdfList")') < Cardinality(Outstanding("pdfList"))
             => /\ lastEvent'.op \in {"pdfListOk", "pdfListFail"}
                /\ Cardinality(Outstanding("pdfList")')
                     = Cardinality(Outstanding("pdfList")) - 1
        /\ lastEvent'.op \in {"pdfUploadOk", "pdfDeleteOk"}
             => Cardinality(Outstanding("pdfList")')
                  = Cardinality(Outstanding("pdfList")) + 1]_vars

\* C5 witness: all document requests have settled successfully, and the one
\* that arrived last had been issued before one that arrived earlier; its
\* payload, which is not the server's list any more, is the store.
C5_Witness ==
  /\ lastEvent.op = "pdfListOk" /\ lastEvent.overtaken
  /\ pdfMutated = "clean" /\ PdfQuiet
  /\ pdfCollections = lastEvent.arg[1]
  /\ pdfCollections # serverDocs

\* C6: once a loadTables() whose list request failed has settled, the tables
\* store is the empty sequence and its loading flag is false.
C6_FailedLoadEmptiesDb ==
  lastEvent.op = "dbListFail" => dbTables = <<>> /\ ~loadingDb

\* C7: when the last detail fetch of a batch settles, the tables store holds
\* one record per table of the list response, in its order; a table whose
\* detail fetch failed is its base record without columns and sample data,
\* every other table carries the columns and sample data of its detail
\* response (empty where the response has none); no notification is emitted.
C7_BatchKeepsEveryTable ==
  lastEvent.op = "dbListOk" =>
    LET tables == lastEvent.arg.tables
        details == lastEvent.arg.details
    IN /\ Len(dbTables) = Len(tables)
       /\ \A k \in DOMAIN tables :
            LET d == details[k][1]
            IN /\ dbTables[k].name = tables[k]
               /\ ~d.ok => dbTables[k].columns = None /\ dbTables[k].sample_data = None
               /\ d.ok /\ d.columns # None =>
                    /\ dbTables[k].columns = d.columns
                    /\ dbTables[k].sample_data = d.sample_data
               /\ d.ok /\ d.columns = None =>
                    /\ dbTables[k].columns = Some(<<>>)
                    /\ dbTables[k].sample_data = Some(<<>>)
       /\ toasts = <<>>

\* C7 witness: a batch of two tables, the first detail fetch failed and the
\* second succeeded.
C7_Witness ==
  /\ lastEvent.op = "dbListOk"
  /\ Len(dbTables) = 2
  /\ ~lastEvent.arg.details[1][1].ok
  /\ dbTables[1] = BaseTable("users")
  /\ dbTables[2].columns = Some(Columns)

\* C8: a successful chat-list response that is a bare sequence becomes the
\* store, one that is an object whose collections field is a sequence makes
\* that sequence the store, every other shape makes the store empty.
C8_ChatShapes ==
  lastEvent.op = "chatListOk" =>
    LET data == lastEvent.arg[1]
    IN  CASE data.t = "array" -> chatCollections = data.items
          [] data.t = "object" /\ data.collections # None
               /\ data.collections[1].t = "array" ->
                 chatCollections = data.collections[1].items
          [] OTHER -> chatCollections = <<>>

\* C8 witness: an envelope whose collections hold two items, in its order.
C8_Witness ==
  /\ lastEvent.op = "chatListOk"
  /\ lastEvent.arg[1].t = "object"
  /\ chatCollections = <<"c2", "c1">>

\* C9: a list fetch emits a failure notification exactly when it is a
\* documents or chat fetch whose list request failed, and then one; no step
\* of a tables fetch and no successful response emits any.
C9_FetchToasts ==
  /\ lastEvent.op = "pdfListFail" => toasts = <<PdfErrorToast>>
  /\ lastEvent.op = "chatListFail" => toasts = <<ChatErrorToast>>
  /\ lastEvent.op \in {"mount", "handleTabChange", "pdfListOk", "chatListOk",
                       "dbListFail", "dbListThrow", "dbListEmpty",
                       "dbListDetails", "dbDetail", "dbListOk"}
       => toasts = <<>>

\* C9 witness: a failed table-list request, no notification.
C9_Witness == lastEvent.op = "dbListFail" /\ toasts = <<>> /\ ~loadingDb

\* C10: once a loadChats() whose list request failed has settled, the chat
\* store is the empty sequence and its loading flag is false.
C10_FailedLoadEmptiesChat ==
  lastEvent.op = "chatListFail" => chatCollections = <<>> /\ ~loadingChat

\* C10 witness: the store held two items when the request failed.
C10_Witness ==
  /\ lastEvent.op = "chatListFail"
  /\ lastEvent.arg = Some(<<"c2", "c1">>)
  /\ chatCollections = <<>>

\* The list requests among the requests rs.
ListRequests(rs) ==
  {i \in DOMAIN rs : rs[i].kind \in {"pdfList", "chatList", "dbList"}}

\* C11: every handleTabChange(tab) with tab different from the active tab makes
\* tab the active tab and issues exactly one list request, of tab's kind, and
\* none of the other two kinds; the requests already outstanding stay as they
\* are and the items of no store are changed by the activation.
C11_ActivationFetchesOwnKind ==
  [][\A tab \in Tabs :
       (handleTabChange(tab) /\ tab # activeTab) =>
         /\ activeTab' = tab
         /\ Len(reqs') = Len(reqs) + 1
         /\ \A i \in DOMAIN reqs : reqs'[i] = reqs[i]
         /\ reqs'[Len(reqs')].kind = ListKind(tab)
         /\ reqs'[Len(reqs')].phase = "sent"
         /\ Cardinality(ListRequests(reqs')) = Cardinality(ListRequests(reqs)) + 1
         /\ stores' = stores]_vars

\* The tables tab has just been activated from another tab while the
\* documents store holds items: its one list request is outstanding.
C11_Witness ==
  /\ lastEvent.op = "handleTabChange"
  /\ lastEvent.arg # Some(activeTab)
  /\ activeTab = "database"
  /\ Cardinality(Outstanding("dbList")) = 1
  /\ Outstanding("pdfList") = {} /\ Outstanding("chatList") = {}
  /\ pdfCollections # <<>>

\* The number of requests of a kind among the requests rs.
Count(rs, kind) == Cardinality({i \in DOMAIN rs : rs[i].kind = kind})

\* The step settles one request of kind `kind` and issues one list request of
\* kind `list`, the only request it issues.
SettlesAndReloads(kind, list) ==
  /\ Count(reqs', kind) = Count(reqs, kind) - 1
  /\ Len(reqs') = Len(reqs)
  /\ reqs'[Len(reqs')].kind = list /\ reqs'[Len(reqs')].phase = "sent"
  /\ Cardinality(ListRequests(reqs')) = Cardinality(ListRequests(reqs)) + 1

\* The step settles one request of kind `kind` and issues none.
SettlesOnly(kind) ==
  /\ Count(reqs', kind) = Count(reqs, kind) - 1
  /\ Len(reqs') = Len(reqs) - 1
  /\ Cardinality(ListRequests(reqs')) = Cardinality(ListRequests(reqs))

\* C12: handlePdfUpload with a non-empty selection and handleChatUpload issue
\* the upload request and no list request; when the upload succeeds the handler
\* emits exactly one success toast carrying the count of the response
\* (file_count, message_count) and issues exactly one list request of the
\* uploaded kind; when it fails the handler emits exactly one failure toast,
\* issues no request at all (no reload, no retry) and leaves the stores as
\* they are.
C12_UploadOutcome ==
  [][/\ (lastEvent'.op = "handlePdfUpload" /\ lastEvent'.arg # Some(0)) =>
         /\ Count(reqs', "pdfUpload") = Count(reqs, "pdfUpload") + 1
         /\ Len(reqs') = Len(reqs) + 1
         /\ toasts' = <<>> /\ stores' = stores
     /\ lastEvent'.op = "handleChatUpload" =>
         /\ Count(reqs', "chatUpload") = Count(reqs, "chatUpload") + 1
         /\ Len(reqs') = Len(reqs) + 1
         /\ toasts' = <<>> /\ stores' = stores
     /\ lastEvent'.op = "pdfUploadOk" =>
         /\ \E i \in Outstanding("pdfUpload") :
              /\ reqs[i].data # None
              /\ toasts' = <<Toast("Upload Successful",
                                   <<reqs[i].data[1], " PDF(s) uploaded successfully">>,
                                   "default")>>
         /\ SettlesAndReloads("pdfUpload", "pdfList")
         /\ stores' = stores
     /\ lastEvent'.op = "chatUploadOk" =>
         /\ toasts' = <<Toast("Chat Upload Successful",
                              <<lastEvent'.arg[1], " messages processed">>, "default")>>
         /\ SettlesAndReloads("chatUpload", "chatList")
         /\ stores' = stores
     /\ lastEvent'.op = "pdfUploadFail" =>
         /\ toasts' = <<Toast("Upload Failed", <<"Failed to upload PDF files">>,
                              "destructive")>>
         /\ SettlesOnly("pdfUpload")
         /\ stores' = stores
     /\ lastEvent'.op = "chatUploadFail" =>
         /\ toasts' = <<Toast("Upload Failed", <<"Failed to upload chat file">>,
                              "destructive")>>
         /\ SettlesOnly("chatUpload")
         /\ stores' = stores]_vars

\* A document upload of two files has just succeeded with a response that
\* reports one file: the toast carries 1 and the reload is outstanding.
C12_Witness ==
  /\ lastEvent.op = "pdfUploadOk"
  /\ lastEvent.cause = Some(2)
  /\ lastEvent.arg = Some(1)
  /\ toasts[1].description[1] = 1
  /\ \E i \in Outstanding("pdfList") : reqs[i].arg = Reload("upload", "")

\* The reloads a successful delete of some collection issues.
DeleteReloads(ids) == {Reload("delete", x) : x \in ids}

\* C13: deleteCollection(X) and deleteChatCollection(X) issue the delete
\* request and no list request; when the delete succeeds the handler issues
\* exactly one list request of the deleted kind and does not touch the stores
\* itself; when that reload succeeds the store becomes exactly the sequence of
\* the response (for chats: the bare sequence, or the one under
\* `collections`), so a response that still contains X puts X in the store.
C13_DeleteThenReload ==
  [][/\ lastEvent'.op \in {"deleteCollection", "deleteChatCollection"} =>
         /\ Len(reqs') = Len(reqs) + 1
         /\ ListRequests(reqs') = ListRequests(reqs)
         /\ stores' = stores
     /\ lastEvent'.op = "pdfDeleteOk" =>
         /\ SettlesAndReloads("pdfDelete", "pdfList")
         /\ stores' = stores
     /\ lastEvent'.op = "chatDeleteOk" =>
         /\ SettlesAndReloads("chatDelete", "chatList")
         /\ stores' = stores
     /\ (lastEvent'.op = "pdfListOk" /\ lastEvent'.cause \in DeleteReloads(DocIds)) =>
         /\ \E i \in Outstanding("pdfList") :
              /\ reqs[i].arg = lastEvent'.cause /\ reqs[i].data # None
              /\ pdfCollections' = reqs[i].data[1]
         /\ Len(reqs') = Len(reqs) - 1
     /\ (lastEvent'.op = "chatListOk" /\ lastEvent'.cause \in DeleteReloads(ChatIds)) =>
         LET body == lastEvent'.arg[1]
         IN /\ body.t = "array" => chatCollections' = body.items
            /\ (body.t = "object" /\ body.collections[1].t = "array") =>
                 chatCollections' = body.collections[1].items
            /\ Len(reqs') = Len(reqs) - 1]_vars

\* The reload after a successful delete of chat collection c1 has succeeded
\* with a response that still lists c1: the store contains c1.
C13_Witness ==
  /\ lastEvent.op = "chatListOk"
  /\ lastEvent.cause = Reload("delete", "c1")
  /\ lastEvent.arg[1].t = "array"
  /\ "c1" \in Range(lastEvent.arg[1].items)
  /\ "c1" \in Range(chatCollections)

\* C14: when the request of deleteCollection(X) or deleteChatCollection(X)
\* fails, the handler emits exactly one failure toast, issues no request (no
\* reload, no retry) and leaves the items of the three stores and the three
\* loading flags as they were.
C14_FailedDeleteTouchesNothing ==
  [][/\ lastEvent'.op = "pdfDeleteFail" =>
         /\ toasts' = <<Toast("Delete Failed", <<"Failed to delete collection">>,
                              "destructive")>>
         /\ SettlesOnly("pdfDelete")
         /\ stores' = stores
         /\ <<loadingPdf, loadingChat, loadingDb>>' = <<loadingPdf, loadingChat, loadingDb>>
     /\ lastEvent'.op = "chatDeleteFail" =>
         /\ toasts' = <<Toast("Delete Failed", <<"Failed to delete chat collection">>,
                              "destructive")>>
         /\ SettlesOnly("chatDelete")
         /\ stores' = stores
         /\ <<loadingPdf, loadingChat, loadingDb>>' = <<loadingPdf, loadingChat, loadingDb>>
    ]_vars

\* The delete of a collection the documents store holds has just failed: the
\* store still holds it and nothing is outstanding.
C14_Witness ==
  /\ lastEvent.op = "pdfDeleteFail"
  /\ lastEvent.arg[1] \in Range(pdfCollections)
  /\ Len(toasts) = 1 /\ toasts[1].variant = "destructive"
  /\ reqs = <<>>

\* C15: handlePdfUpload called with a null or empty selection issues no
\* request, leaves the uploading flag, the three stores and the three loading
\* flags as they are and emits no toast.
C15_EmptySelectionIsNoOp ==
  [][(lastEvent'.op = "handlePdfUpload" /\ lastEvent'.arg = Some(0)) =>
       /\ reqs' = reqs
       /\ stores' = stores
       /\ flags' = flags
       /\ toasts' = <<>>]_vars

\* handlePdfUpload has just been called with an empty selection while an
\* upload is outstanding: uploading is still true, no second request exists.
C15_Witness ==
  /\ lastEvent.op = "handlePdfUpload"
  /\ lastEvent.arg = Some(0)
  /\ uploading
  /\ Count(reqs, "pdfUpload") = 1
  /\ toasts = <<>>

\* C16: for the expanded set S of every reachable state and every name t: the
\* update of toggleTableExpansion(t) flips the membership of t and of no other
\* name; applied twice it yields S again, and with the toggle of another name
\* u between the two it yields S with only u toggled. Every
\* toggleTableExpansion(t) step changes expandedTables in exactly that way.
C16_ToggleFlipsOneName ==
  /\ [](\A t \in ExpandNames :
          LET S == expandedTables
              once == ToggleTable(S, t)
          IN /\ (t \in once) <=> (t \notin S)
             /\ \A x \in ExpandNames \ {t} : (x \in once) <=> (x \in S)
             /\ once \subseteq S \cup {t}
             /\ ToggleTable(once, t) = S
             /\ \A u \in ExpandNames \ {t} :
                  ToggleTable(ToggleTable(once, u), t) = ToggleTable(S, u))
  /\ [][lastEvent'.op = "toggleTableExpansion" =>
          LET t == lastEvent'.arg[1]
          IN /\ (t \in expandedTables') <=> (t \notin expandedTables)
             /\ expandedTables' \ {t} = expandedTables \ {t}]_vars

\* A third toggle has just removed a name from the expanded set while another
\* name stays expanded.
C16_Witness ==
  /\ lastEvent.op = "toggleTableExpansion"
  /\ ops = 3
  /\ lastEvent.arg[1] \notin expandedTables
  /\ Cardinality(expandedTables) = 1
  /\ Outstanding("dbList") = {} /\ activeTab = "pdf"

\* The names of the records in the tables store.
StoredTables == {dbTables[k].name : k \in DOMAIN dbTables}

\* C17: toggleTableExpansion(t) issues no request and leaves the items of the
\* three stores (columns included), the three loading flags, the uploading
\* flag and the active tab as they are, for every name t, also one that is
\* not in the tables store and while a table load is outstanding.
C17_ToggleTouchesOnlyExpansion ==
  [][lastEvent'.op = "toggleTableExpansion" =>
       /\ reqs' = reqs
       /\ stores' = stores
       /\ flags' = flags
       /\ activeTab' = activeTab
       /\ toasts' = <<>>]_vars

\* A name that is not in the (non-empty) tables store has just been toggled
\* while the detail fetches of a table load are running.
C17_Witness ==
  /\ lastEvent.op = "toggleTableExpansion"
  /\ lastEvent.arg[1] \notin StoredTables
  /\ lastEvent.arg[1] \in expandedTables
  /\ dbTables # <<>>
  /\ \E i \in Outstanding("dbList") : reqs[i].phase = "details"
  /\ loadingDb

\* The eight spellings of the suffix the pattern matches.
PdfSuffixes ==
  {<<".", p, d, f>> : p \in {"p", "P"}, d \in {"d", "D"}, f \in {"f", "F"}}

\* C18: getCollectionTitle returns the placeholder "Untitled Collection" for
\* a collection whose file_names is absent or empty, whatever its other
\* fields; otherwise the first entry of file_names without one trailing
\* ".pdf" (in any letter case) and with every "_" and every "-" turned into a
\* space; later entries do not matter. "Annual_Report-2023.PDF" gives
\* "Annual Report 2023".
C18_TitleDerivation ==
  /\ getCollectionTitle([file_names |-> Some(<<<<"A", "n", "n", "u", "a", "l", "_", "R", "e", "p", "o", "r", "t", "-", "2", "0", "2", "3", ".", "P", "D", "F">>>>), document_count |-> 1])
       = <<"A", "n", "n", "u", "a", "l", " ", "R", "e", "p", "o", "r", "t", " ", "2", "0", "2", "3">>
  /\ lastEvent.op = "getCollectionTitle" =>
       LET c == lastEvent.arg[1].collection
           title == lastEvent.arg[1].title
       IN IF c.file_names = None \/ c.file_names = Some(<<>>)
            THEN title = Placeholder
            ELSE LET first == c.file_names[1][1]
                     n == Len(first)
                     cut == IF n >= 4 /\ SubSeq(first, n - 3, n) \in PdfSuffixes
                              THEN n - 4 ELSE n
                 IN /\ Len(title) = cut
                    /\ \A k \in 1..cut :
                         title[k] = IF first[k] \in {"_", "-"} THEN " " ELSE first[k]
                    /\ title = getCollectionTitle([c EXCEPT !.file_names = Some(<<first>>)])
                    /\ title = getCollectionTitle([c EXCEPT !.document_count = 7])

\* The title of a collection of two files whose first is "_-.PDF" has been
\* computed: two spaces.
C18_Witness ==
  /\ lastEvent.op = "getCollectionTitle"
  /\ lastEvent.arg[1].collection.file_names = Some(<<<<"_", "-", ".", "P", "D", "F">>, <<"b", "_", ".", "p", "d", "f">>>>)
  /\ lastEvent.arg[1].title = <<" ", " ">>

\* C19: the handler that settles a load clears the kind's loading flag and the
\* handler that settles an upload clears the uploading flag, on success, on
\* failure and on a success body that makes the .then throw (a null table
\* list); so whenever no request is outstanding the three loading flags and
\* the uploading flag are all false.
C19_FlagsClearedOnEveryPath ==
  /\ lastEvent.op \in {"pdfListOk", "pdfListFail"} => ~loadingPdf
  /\ lastEvent.op \in {"chatListOk", "chatListFail"} => ~loadingChat
  /\ lastEvent.op \in {"dbListOk", "dbListEmpty", "dbListThrow", "dbListFail"} =>
       ~loadingDb
  /\ lastEvent.op \in {"pdfUploadOk", "pdfUploadFail", "chatUploadOk", "chatUploadFail"} =>
       ~uploading
  /\ reqs = <<>> => ~loadingPdf /\ ~loadingChat /\ ~loadingDb /\ ~uploading

\* A table load has just ended on a null list body and nothing is
\* outstanding.
C19_Witness ==
  /\ lastEvent.op = "dbListThrow"
  /\ reqs = <<>>
  /\ mounted /\ activeTab = "database"
  /\ ~loadingDb

\* The table loads whose detail fetches have not all settled.
AwaitingDetails ==
  {i \in Outstanding("dbList") :
     reqs[i].phase = "details" /\ ~AllSettled(reqs[i].details)}

\* C20: while a detail fetch of a table load with a non-empty list response
\* has not settled, loading is true (the store is written, and the flag
\* cleared, only when the last detail fetch of the load settles).
C20_LoadingUntilBatchSettles == AwaitingDetails # {} => loadingDb

\* The table loads whose detail fetches have been issued.
InDetails(rs) == {i \in DOMAIN rs : rs[i].kind = "dbList" /\ rs[i].phase = "details"}

\* C21: a table load has no detail fetch before its list response; the step
\* that receives a list response with tables issues one detail fetch per
\* table, all of them in that step and all unsettled; the step that receives
\* a list response whose tables field is empty or absent issues no detail
\* fetch, settles the load and empties the tables store.
C21_OneDetailFetchPerTable ==
  /\ [](\A i \in Outstanding("dbList") :
          /\ reqs[i].phase = "sent" => reqs[i].details = <<>>
          /\ reqs[i].phase = "details" =>
               /\ Len(reqs[i].data[1]) > 0
               /\ Len(reqs[i].details) = Len(reqs[i].data[1]))
  /\ [][/\ lastEvent'.op = "dbListDetails" =>
            /\ Len(reqs') = Len(reqs)
            /\ Cardinality(InDetails(reqs')) = Cardinality(InDetails(reqs)) + 1
            /\ \A i \in InDetails(reqs') \ InDetails(reqs) :
                 /\ reqs'[i].data = lastEvent'.arg
                 /\ Len(reqs'[i].details) = Len(lastEvent'.arg[1])
                 /\ \A k \in DOMAIN reqs'[i].details : reqs'[i].details[k] = None
            /\ dbTables' = dbTables
        /\ lastEvent'.op = "dbListEmpty" =>
            /\ Len(reqs') = Len(reqs) - 1
            /\ Cardinality(InDetails(reqs')) = Cardinality(InDetails(reqs))
            /\ dbTables' = <<>>]_vars

\* Of the two detail fetches of a load the second has settled while the first
\* has not.
C21_Witness ==
  \E i \in InDetails(reqs) :
    /\ Len(reqs[i].details) = 2
    /\ reqs[i].data[1] = <<"users", "orders">>
    /\ reqs[i].details[1] = None
    /\ reqs[i].details[2] # None

\* The steps of the loads, uploads and deletes of each kind, by their event.
PdfSteps ==
  {"serverListPdf", "pdfListOk", "pdfListFail", "handlePdfUpload", "serverUploadPdf",
   "pdfUploadOk", "pdfUploadFail", "deleteCollection", "serverDeletePdf",
   "pdfDeleteOk", "pdfDeleteFail"}
ChatSteps ==
  {"chatListOk", "chatListFail", "handleChatUpload", "chatUploadOk", "chatUploadFail",
   "deleteChatCollection", "chatDeleteOk", "chatDeleteFail"}
DbSteps ==
  {"dbListDetails", "dbListEmpty", "dbListThrow", "dbListFail", "dbDetail", "dbListOk"}

\* C22: every step of a load, upload or delete of one kind (issue, response,
\* failure) leaves the items and the loading flag of the other two kinds as
\* they are; the step that issues a load (mount, tab change) writes the
\* loading flag of the new active tab's kind at most and no store.
C22_StoresIndependent ==
  [][/\ lastEvent'.op \in PdfSteps =>
         <<chatCollections, loadingChat, dbTables, loadingDb>>'
           = <<chatCollections, loadingChat, dbTables, loadingDb>>
     /\ lastEvent'.op \in ChatSteps =>
         <<pdfCollections, loadingPdf, dbTables, loadingDb>>'
           = <<pdfCollections, loadingPdf, dbTables, loadingDb>>
     /\ lastEvent'.op \in DbSteps =>
         <<pdfCollections, loadingPdf, chatCollections, loadingChat>>'
           = <<pdfCollections, loadingPdf, chatCollections, loadingChat>>
     /\ lastEvent'.op \in {"mount", "handleTabChange"} =>
         /\ stores' = stores
         /\ activeTab' # "pdf" => loadingPdf' = loadingPdf
         /\ activeTab' # "chat" => loadingChat' = loadingChat
         /\ activeTab' # "database" => loadingDb' = loadingDb]_vars

\* A chat upload has just succeeded while a table load is outstanding and the
\* documents store holds items: only the chat load has been started.
C22_Witness ==
  /\ lastEvent.op = "chatUploadOk"
  /\ pdfCollections # <<>> /\ ~loadingPdf
  /\ loadingDb /\ Outstanding("dbList") # {}
  /\ loadingChat /\ Cardinality(Outstanding("chatList")) = 1

\* C23: uploading is true whenever at least one upload request, of documents
\* or of a chat, is outstanding (the completion of one upload does not clear
\* the flag while another upload is in flight).
C23_UploadingWhileOutstanding ==
  (Count(reqs, "pdfUpload") + Count(reqs, "chatUpload") > 0) => uploading

\* C24: only toggleTableExpansion changes the expanded set: no step of a table
\* load (list response, empty list, failure, detail fetch), no tab change and
\* no other step adds or removes a name, so a name stays expanded when a
\* reload no longer returns its table.
C24_OnlyToggleChangesExpansion ==
  [][lastEvent'.op # "toggleTableExpansion" => expandedTables' = expandedTables]_vars

\* A table load has just stored the one table users while the table orders
\* is expanded.
C24_Witness ==
  /\ lastEvent.op = "dbListOk"
  /\ activeTab = "database"
  /\ expandedTables = {"orders"}
  /\ StoredTables = {"users"}
  /\ ~(expandedTables \subseteq StoredTables)

\* A step that activates tab `tab` from another tab.
Activates(tab) ==
  lastEvent'.op = "handleTabChange" /\ activeTab' = tab /\ activeTab # tab

\* C25: the panel starts on the documents tab with nothing requested; the
\* mount issues exactly one documents list request, sets the documents loading
\* flag and nothing else; as long as the user has done nothing, no chat or
\* table request exists and the chat and tables stores are empty with loading
\* false; a chat (table) list request is issued only by the activation of the
\* chat (tables) tab, and the chat (tables) store and loading flag change
\* only in that activation or in a step of such a request.
C25_MountLoadsDocumentsOnly ==
  /\ [](ops = 0 =>
          /\ activeTab = "pdf"
          /\ ~mounted => reqs = <<>> /\ ~loadingPdf
          /\ Count(reqs, "pdfList") <= 1
          /\ Count(reqs, "chatList") = 0 /\ Count(reqs, "dbList") = 0
          /\ chatCollections = <<>> /\ dbTables = <<>>
          /\ ~loadingChat /\ ~loadingDb)
  /\ [][/\ lastEvent'.op = "mount" =>
            /\ reqs = <<>>
            /\ reqs' = <<Req("pdfList", None)>>
            /\ loadingPdf' /\ ~loadingChat' /\ ~loadingDb'
            /\ activeTab' = "pdf"
            /\ stores' = stores
        /\ Count(reqs', "chatList") > Count(reqs, "chatList") => Activates("chat")
        /\ Count(reqs', "dbList") > Count(reqs, "dbList") => Activates("database")
        /\ <<chatCollections, loadingChat>>' # <<chatCollections, loadingChat>> =>
            Activates("chat") \/ lastEvent'.op \in ChatSteps
        /\ <<dbTables, loadingDb>>' # <<dbTables, loadingDb>> =>
            Activates("database") \/ lastEvent'.op \in DbSteps]_vars

\* The panel has been mounted and the user has done nothing: the one
\* documents list request is outstanding.
C25_Witness ==
  /\ mounted /\ ops = 0
  /\ lastEvent.op = "mount"
  /\ activeTab = "pdf"
  /\ reqs = <<Req("pdfList", None)>>
  /\ loadingPdf /\ ~loadingChat /\ ~loadingDb

\* C26: a change of the API base URL issues no request and leaves the stores,
\* the flags and the active tab as they are, whatever tab is active; a table
\* list request is issued only by the activation of the tables tab, with the
\* base URL of that moment, and its detail fetches go to that same URL even
\* when the URL has been changed since; the tables store is written only when
\* a table load settles.
C26_UrlChangeLoadsNothing ==
  /\ [](\A i \in Outstanding("dbList") :
          /\ reqs[i].arg \in {Some(url) : url \in Urls}
          /\ reqs[i].phase = "sent" => reqs[i].detailUrl = None
          /\ reqs[i].phase = "details" => reqs[i].detailUrl = reqs[i].arg)
  /\ [][/\ lastEvent'.op = "onApiUrlChange" =>
            /\ apiUrl' = lastEvent'.arg[1]
            /\ reqs' = reqs
            /\ stores' = stores
            /\ flags' = flags
            /\ activeTab' = activeTab
            /\ toasts' = <<>>
        /\ Count(reqs', "dbList") > Count(reqs, "dbList") =>
            /\ Activates("database")
            /\ reqs'[Len(reqs')].arg = Some(apiUrl)
        /\ dbTables' # dbTables => lastEvent'.op \in {"dbListOk", "dbListEmpty"}]_vars

\* On the tables tab the URL was changed from u1 to u2 while a table load
\* issued with u1 was waiting for its list response: the detail fetches have
\* just been issued, to u1.
C26_Witness ==
  /\ lastEvent.op = "dbListDetails"
  /\ activeTab = "database"
  /\ apiUrl = "u2"
  /\ \E i \in InDetails(reqs) :
       /\ reqs[i].arg = Some("u1")
       /\ reqs[i].detailUrl = Some("u1")
       /\ \A k \in DOMAIN reqs[i].details : reqs[i].details[k] = None
====
